---- MODULE Spec2Model ----
(***************************************************************************)
(* Verification model of fedora-java/modularity-utils:                     *)
(*   generate-modulemd.py  - is_maven_pkg, resolve_deps, the round loop of *)
(*                           work(), build_deps/runtime_deps, topo_sort    *)
(*   pkg-versions.py       - normalize_version, the thread-pool fan-out,   *)
(*                           the upstream cache, get_all_versions          *)
(* Strings that the code inspects character by character are sequences of  *)
(* one-character strings; file paths are the sequences of their            *)
(* "/"-separated components; RPM file names are the sequences of their     *)
(* "-"-separated fields.                                                   *)
(***************************************************************************)
EXTENDS Integers, Sequences, FiniteSets, TLC

VARIABLES
    \* ---- pkg-versions.py: normalize_version
    nv_pc,          \* "call" | "done" | "idle"
    version,        \* the argument of normalize_version
    nv_result,      \* its return value, or Raised
    \* ---- generate-modulemd.py: configuration (lines 55-59, 181, 202)
    api, includes, excludes,
    include_build_deps, closure, filtered,
    koji_brs,       \* the BuildRequires Koji holds for the source RPMs
    \* ---- generate-modulemd.py: work()
    w_pc,           \* "seed" | "goal" | "each" | "loop" | "deps" | "sort" | "done" | "idle"
    caller,         \* who called resolve_deps: "seed" (line 184) | "round" (line 204)
    deps,           \* the argument of resolve_deps
    deps_left,      \* what the loop of lines 107-114 has still to visit
    installs,       \* installs of resolve_deps
    srpms_todo, srpms_done, pkgs, br_map,
    build_deps, runtime_deps,
    buildorder,     \* Undefined, None or the dictionary topo_sort returned
    rounds,         \* iterations of the while loop started
    barren,         \* how many of them added nothing to srpms_done
    br_fetches,     \* per SRPM, in how many rounds its build-requires were fetched
    \* ---- generate-modulemd.py: is_maven_pkg called on its own
    mv_pc,          \* "call" | "done" | "idle"
    mv_pkg,         \* a hawkey package: [sourcerpm, files]
    mv_result,      \* the return value of is_maven_pkg(mv_pkg)
    \* ---- pkg-versions.py: a thread-pool fan-out (lines 74-81, 147-154)
    p_pc,           \* "submit" | "collect" | "returned" | "raised" | "idle"
    p_kind,         \* "upstream" (get_upstream_versions) | "fedora" (get_all_versions)
    p_items,        \* package_names, or fedora_releases: one call each
    futures,        \* the submitted futures, in submission order
    p_collected,    \* how many futures the zip loop has consumed
    p_result,       \* the dictionary being filled
    \* ---- pkg-versions.py: runs of the script
    v_pc,           \* position in the script
    now,            \* time.time()
    runs,           \* runs of the script started so far
    cache,          \* the file at upstream_cache_path: NoFile or [exists, time_retrieved, packages]
    package_names,  \* get_packages() of the current run
    uc_before,      \* the cache file when get_upstream_versions_cached was entered
    uc_checked_at,  \* time.time() at line 105
    lookups,        \* the names get_upstream_version was called for in this run
    fetched,        \* what those calls returned
    upstream,       \* the return value of get_upstream_versions_cached
    versions_all,   \* the return value of get_all_versions
    outcome         \* how the run went: "running", "returned", or the exception raised

nv_vars == <<nv_pc, version, nv_result>>
cfg_vars == <<api, includes, excludes, include_build_deps, closure, filtered, koji_brs>>
w_vars == <<w_pc, caller, deps, deps_left, installs, srpms_todo, srpms_done, pkgs,
            br_map, build_deps, runtime_deps, buildorder, rounds, barren, br_fetches>>
mv_vars == <<mv_pc, mv_pkg, mv_result>>
p_vars == <<p_pc, p_kind, p_items, futures, p_collected, p_result>>
v_vars == <<v_pc, now, runs, cache, package_names, uc_before, uc_checked_at,
            lookups, fetched, upstream, versions_all, outcome>>

-----------------------------------------------------------------------------
(* Sequence helpers *)

SeqsUpTo(S, n) == UNION {[1..k -> S] : k \in 0..n}

startswith(s, prefix) ==
    /\ Len(s) >= Len(prefix)
    /\ SubSeq(s, 1, Len(prefix)) = prefix

Tail1(s) == SubSeq(s, 2, Len(s))

SetsUpTo(S, n) == {x \in SUBSET S : Cardinality(x) <= n}

-----------------------------------------------------------------------------
(* pkg-versions.py: normalize_version                                      *)

Digits == {"0", "1", "2", "3", "4", "5", "6", "7", "8", "9"}

Letters ==
    {"a", "b", "c", "d", "e", "f", "g", "h", "i", "j", "k", "l", "m",
     "n", "o", "p", "q", "r", "s", "t", "u", "v", "w", "x", "y", "z",
     "A", "B", "C", "D", "E", "F", "G", "H", "I", "J", "K", "L", "M",
     "N", "O", "P", "Q", "R", "S", "T", "U", "V", "W", "X", "Y", "Z"}

\* the characters "." of a regular expression matches: all but the line break
NotNewline == Digits \cup Letters \cup {".", "-", "_", "~", " "}

\* the outcome of a call that raised an exception
Raised == <<"!raise">>

\* str.replace(old, new) for one-character old and new
replace(s, old, new) == [i \in 1..Len(s) |-> IF s[i] = old THEN new ELSE s[i]]

\* the longest prefix of s matched by the character class cls (greedy "cls*")
RECURSIVE ClassRun(_, _, _)
ClassRun(s, cls, n) ==
    IF n < Len(s) /\ s[n + 1] \in cls THEN ClassRun(s, cls, n + 1) ELSE n

\* re.match("([.0-9]*[0-9]+)(.*)", s): "[.0-9]*" first takes as much as it
\* can and gives characters back one by one until "[0-9]+" (greedy, from
\* where "[.0-9]*" stopped) matches at least one digit.  Returns the length
\* of group 1, or -1 when there is no match.  Group 2, "(.*)", is what
\* follows up to the first line break.
RECURSIVE ReBacktrack(_, _)
ReBacktrack(s, n) ==
    LET rest == SubSeq(s, n + 1, Len(s))
        m == ClassRun(rest, Digits, 0)
    IN  IF m >= 1 THEN n + m
        ELSE IF n = 0 THEN -1
        ELSE ReBacktrack(s, n - 1)

ReMatchVersion(s) == ReBacktrack(s, ClassRun(s, Digits \cup {"."}, 0))

ReGroup2(s, g1) ==
    LET rest == SubSeq(s, g1 + 1, Len(s))
    IN  SubSeq(rest, 1, ClassRun(rest, NotNewline, 0))

SP == <<"S", "P">>
DotFinal == <<".", "F", "i", "n", "a", "l">>

\* a variant of the code: a leading "." or "~" of the remainder is not dropped
NoStripTrailing(trailing) ==
    IF Len(trailing) = 1 /\ trailing[1] \in Letters
    THEN trailing
    ELSE LET t2 == IF startswith(trailing, SP)
                   THEN <<".">> \o trailing
                   ELSE <<"~">> \o trailing
             t3 == IF trailing # <<>> THEN t2 ELSE trailing
         IN  replace(t3, "-", ".")

\* lines 187-199: the treatment of the part after the numeric prefix
FixTrailing(trailing) ==
    IF Len(trailing) = 1 /\ trailing[1] \in Letters
    THEN trailing
    ELSE LET t1 == IF startswith(trailing, <<".">>) \/ startswith(trailing, <<"~">>)
                   THEN Tail1(trailing)
                   ELSE trailing
             t2 == IF startswith(t1, SP)
                   THEN <<".">> \o t1
                   ELSE <<"~">> \o t1
             t3 == IF trailing # <<>> THEN t2 ELSE trailing
         IN  replace(t3, "-", ".")

normalize_version(v) ==
    IF v = <<>> THEN <<>>
    ELSE LET version_name == replace(replace(v, "_", "."), "-", ".")
             g1 == ReMatchVersion(version_name)
             leading == SubSeq(version_name, 1, g1)
             trailing == ReGroup2(version_name, g1)
         IN  IF g1 = -1 THEN Raised
             ELSE IF trailing = DotFinal THEN leading
             ELSE leading \o FixTrailing(trailing)

\* Inputs: every string over a small alphabet up to MaxVersionLen, short
\* numeric prefixes followed by the suffixes the code singles out, and the
\* arguments of the self-tests (lines 290-317).
MaxVersionLen == 4

VersionAlphabet == {"1", ".", "-", "_", "~", "b", "S", "P", "\n"}

VersionSuffixes ==
    { DotFinal,
      <<"-", "F", "i", "n", "a", "l">>,
      <<"F", "i", "n", "a", "l">>,
      <<".", "F", "i", "n", "a", "l", "e">>,
      <<".", "S", "P", "1">>,
      <<"-", "a", "l", "p", "h", "a", "-", "2">>,
      <<"-", "r", "c", "1">> }

SelfTests ==
  { <<<<>>, <<>>>>,
    <<<<"1",".","0","b","3">>,
      <<"1",".","0","~","b","3">>>>,
    <<<<"2",".","0",".","S","P","1">>,
      <<"2",".","0",".","S","P","1">>>>,
    <<<<"0",".","1","1","b">>,
      <<"0",".","1","1","b">>>>,
    <<<<"3","_","2","_","1","2">>,
      <<"3",".","2",".","1","2">>>>,
    <<<<"6",".","0","-","a","l","p","h","a","-","2">>,
      <<"6",".","0","~","a","l","p","h","a",".","2">>>>,
    <<<<"1",".","0",".","1",".","F","i","n","a","l">>,
      <<"1",".","0",".","1">>>>,
    <<<<"2",".","5",".","0","-","r","c","1">>,
      <<"2",".","5",".","0","~","r","c","1">>>>,
    <<<<"1",".","0","-","2","0","0","5","0","9","2","7",".","1","3","3","1","0","0">>,
      <<"1",".","0",".","2","0","0","5","0","9","2","7",".","1","3","3","1","0","0">>>> }

VersionInputs ==
    SeqsUpTo(VersionAlphabet, MaxVersionLen)
      \cup {p \o s : p \in SeqsUpTo({"1", "."}, MaxVersionLen - 2), s \in VersionSuffixes}
      \cup {t[1] : t \in SelfTests}

NvIdle == nv_pc = "idle" /\ version = <<>> /\ nv_result = <<>>

NormalizeVersion ==
    /\ nv_pc = "call"
    /\ nv_result' = normalize_version(version)
    /\ nv_pc' = "done"
    /\ UNCHANGED <<version, cfg_vars, mv_vars, w_vars, p_vars, v_vars>>

-----------------------------------------------------------------------------
(* generate-modulemd.py: parse_nvra, name, is_maven_pkg                    *)

\* parse_nvra (lines 72-75): the regex takes the last two "-"-separated
\* fields as version and release.arch.rpm; the name is everything before.
name(rpm) == SubSeq(rpm, 1, Len(rpm) - 2)

MavenMetadataDir == <<"", "usr", "share", "maven-metadata">>
JavaDir == <<"", "usr", "share", "java">>
LibJavaDir == <<"", "usr", "lib", "java">>

\* file.startswith(dir + "/"): the path continues below the directory
InDir(file, dir) == Len(file) > Len(dir) /\ startswith(file, dir)

\* a variant of the code: excludes consulted before includes
is_maven_pkg_excludes_first(p) ==
    IF name(p.sourcerpm) \in excludes THEN FALSE
    ELSE IF name(p.sourcerpm) \in includes THEN TRUE
    ELSE \E file \in p.files :
            \/ InDir(file, MavenMetadataDir)
            \/ InDir(file, JavaDir)
            \/ InDir(file, LibJavaDir)

is_maven_pkg(p) ==
    IF name(p.sourcerpm) \in includes THEN TRUE
    ELSE IF name(p.sourcerpm) \in excludes THEN FALSE
    ELSE \E file \in p.files :
            \/ InDir(file, MavenMetadataDir)
            \/ InDir(file, JavaDir)
            \/ InDir(file, LibJavaDir)

MaxFiles == 2

FilePaths ==
    { <<"", "usr", "share", "maven-metadata", "ant.xml">>,
      <<"", "usr", "share", "java", "ant.jar">>,
      <<"", "usr", "lib", "java", "jni.jar">>,
      <<"", "usr", "share", "java">>,
      <<"", "usr", "share", "javadoc", "ant", "index.html">>,
      <<"", "usr", "lib", "javax", "x.so">>,
      <<"", "usr", "bin", "ant">> }

MvSourceRpms ==
    { <<"ant", "1.10.5", "1.fc30.src.rpm">>,
      <<"maven", "wagon", "3.0.0", "2.fc30.src.rpm">>,
      <<"glibc", "2.28", "9.fc30.src.rpm">> }

MvNames == {<<"ant">>, <<"maven", "wagon">>, <<"maven">>, <<"glibc">>}

MvIdle == mv_pc = "idle" /\ mv_pkg = [sourcerpm |-> <<>>, files |-> {}] /\ mv_result = FALSE

IsMavenPkg ==
    /\ mv_pc = "call"
    /\ mv_result' = is_maven_pkg(mv_pkg)
    /\ mv_pc' = "done"
    /\ UNCHANGED <<mv_pkg, cfg_vars, nv_vars, w_vars, p_vars, v_vars>>

-----------------------------------------------------------------------------
(* pkg-versions.py: dictionaries, the package list, the thread pool        *)

\* a Python dict is a function; EmptyDict is {}
EmptyDict == <<>>
DictSet(d, k, v) == [x \in DOMAIN d \cup {k} |-> IF x = k THEN v ELSE d[x]]
Range(f) == {f[x] : x \in DOMAIN f}

fedora_releases == <<"f28", "f29", "f30", "f31">>
releases == fedora_releases \o <<"mbi", "upstream">>
thread_pool_size == 30

\* the packages the MBI Koji may list, in sorted order
MaxPackages == 2
AllPackageNames == <<"ant", "maven", "plexus", "xmvn", "xz-java">>
PackageUniverse == {AllPackageNames[i] : i \in 1..MaxPackages}

\* get_packages (lines 53-55): the sorted names of the packages not blocked
get_packages(listed) == SelectSeq(SubSeq(AllPackageNames, 1, MaxPackages),
                                  LAMBDA n : n \in listed)

\* what a pooled call may return; a future's value <<arg, r>> is the result r
\* of the call made with argument arg
CallResults == {"r1", "r2"}
NoValue == "none"

max_workers(kind) ==
    IF kind = "upstream" THEN thread_pool_size ELSE Len(fedora_releases)

Running == {i \in 1..Len(futures) : futures[i].state = "running"}
Pending == {i \in 1..Len(futures) : futures[i].state = "pending"}

\* a variant of the code: names paired with the futures shifted by one
ZipFutureShifted(i) == (i % Len(futures)) + 1

\* zip(package_names, futures): the i-th name goes with the i-th future
ZipFuture(i) == i

\* lines 77-78, 150-151: pool.submit for the next item
PoolSubmit ==
    /\ p_pc = "submit"
    /\ Len(futures) < Len(p_items)
    /\ futures' = Append(futures, [arg |-> p_items[Len(futures) + 1],
                                   state |-> "pending", value |-> NoValue])
    /\ UNCHANGED <<p_pc, p_kind, p_items, p_collected, p_result>>
    /\ UNCHANGED <<nv_vars, cfg_vars, mv_vars, w_vars, v_vars>>

\* the submit loop is over
PoolSubmitDone ==
    /\ p_pc = "submit"
    /\ Len(futures) = Len(p_items)
    /\ p_pc' = "collect"
    /\ UNCHANGED <<p_kind, p_items, futures, p_collected, p_result>>
    /\ UNCHANGED <<nv_vars, cfg_vars, mv_vars, w_vars, v_vars>>

\* a free worker thread takes the oldest queued call
WorkerStart ==
    /\ Pending # {}
    /\ Cardinality(Running) < max_workers(p_kind)
    /\ LET i == CHOOSE j \in Pending : \A k \in Pending : j <= k
       IN  futures' = [futures EXCEPT ![i].state = "running"]
    /\ UNCHANGED <<p_pc, p_kind, p_items, p_collected, p_result>>
    /\ UNCHANGED <<nv_vars, cfg_vars, mv_vars, w_vars, v_vars>>

\* a call returns, or raises
WorkerFinish ==
    /\ \E i \in Running :
          \/ \E r \in CallResults :
                futures' = [futures EXCEPT ![i].state = "finished",
                                           ![i].value = <<futures[i].arg, r>>]
          \/ futures' = [futures EXCEPT ![i].state = "failed"]
    /\ UNCHANGED <<p_pc, p_kind, p_items, p_collected, p_result>>
    /\ UNCHANGED <<nv_vars, cfg_vars, mv_vars, w_vars, v_vars>>

\* lines 80-81, 153-154: future.result() blocks until the call is over and
\* re-raises what the call raised
PoolCollect ==
    /\ p_pc = "collect"
    /\ p_collected < Len(p_items)
    /\ LET i == p_collected + 1
           f == futures[ZipFuture(i)]
       IN  \/ /\ f.state = "finished"
              /\ p_result' = DictSet(p_result, p_items[i], f.value)
              /\ p_collected' = i
              /\ p_pc' = p_pc
           \/ /\ f.state = "failed"
              /\ p_pc' = "raised"
              /\ UNCHANGED <<p_result, p_collected>>
    /\ UNCHANGED <<p_kind, p_items, futures>>
    /\ UNCHANGED <<nv_vars, cfg_vars, mv_vars, w_vars, v_vars>>

\* line 83 (and the end of the loop at line 154)
PoolReturn ==
    /\ p_pc = "collect"
    /\ p_collected = Len(p_items)
    /\ p_pc' = "returned"
    /\ UNCHANGED <<p_kind, p_items, futures, p_collected, p_result>>
    /\ UNCHANGED <<nv_vars, cfg_vars, mv_vars, w_vars, v_vars>>

PIdle ==
    /\ p_pc = "idle" /\ p_kind = "upstream" /\ p_items = <<>>
    /\ futures = <<>> /\ p_collected = 0 /\ p_result = EmptyDict

NextPool ==
    \/ PoolSubmit \/ PoolSubmitDone \/ WorkerStart \/ WorkerFinish
    \/ PoolCollect \/ PoolReturn

-----------------------------------------------------------------------------
(* pkg-versions.py: the upstream cache and get_all_versions                *)

upstream_cache_interval == 1 * 60 * 60

\* the cache file: exists models os.path.exists(cache_path), the other two
\* fields the JSON object {"time-retrieved": ..., "packages": ...}
NoFile == [exists |-> FALSE, time_retrieved |-> 0, packages |-> <<>>]

\* what release-monitoring.org may answer for a package ("" when it knows
\* no project), and what a Koji tag may hold
UpstreamVersions == {<<>>, <<"1", ".", "0", "b", "3">>}
KojiVersion == <<"1", ".", "0">>

MaxRuns == 2
MaxTime == 2 * upstream_cache_interval + 2
TickSteps == {upstream_cache_interval, upstream_cache_interval + 1}
LookupSeconds == {0, 1}

Elems(seq) == {seq[i] : i \in 1..Len(seq)}

\* get_upstream_versions (lines 71-83): one call per name, each name mapped
\* to the result of its call
get_upstream_versions(names, answer) == [n \in Elems(names) |-> answer[n]]

\* a variant of the code: the cache is regenerated from the interval on, not after it
CacheExpiredInclusive(c, t) == t - c.time_retrieved >= upstream_cache_interval

\* line 105
CacheExpired(c, t) == t - c.time_retrieved > upstream_cache_interval

\* get_upstream_versions_cached (lines 95-115) with write_json_timestamp
\* (lines 89-93); the lookups take d seconds
GetUpstreamVersionsCached ==
    /\ v_pc = "cached"
    /\ uc_before' = cache
    /\ uc_checked_at' = now
    /\ LET update_cache == IF ~cache.exists THEN TRUE ELSE CacheExpired(cache, now)
       IN  IF update_cache
           THEN \E answer \in [Elems(package_names) -> UpstreamVersions],
                   d \in LookupSeconds :
                   LET result == get_upstream_versions(package_names, answer)
                   IN  /\ lookups' = Elems(package_names)
                       /\ fetched' = answer
                       /\ now' = now + d
                       /\ cache' = [exists |-> TRUE, time_retrieved |-> now + d, packages |-> result]
                       /\ upstream' = result
           ELSE /\ upstream' = cache.packages
                /\ lookups' = {}
                /\ fetched' = EmptyDict
                /\ UNCHANGED <<cache, now>>
    /\ v_pc' = "versions"
    /\ UNCHANGED <<runs, package_names, versions_all, outcome>>
    /\ UNCHANGED <<nv_vars, cfg_vars, mv_vars, w_vars, p_vars>>

\* get_koji_versions (lines 117-129): tagged maps the packages that have a
\* build under the tag to its version; the others get ""
get_koji_versions(names, tagged) ==
    [n \in Elems(names) |-> IF n \in DOMAIN tagged THEN tagged[n] ELSE <<>>]

\* the Koji contents tried: builds of no package or of every package, under
\* every tag or under the MBI tag only
KojiTags == Elems(fedora_releases) \cup {"jp"}
KojiWorlds(names) ==
    {[t \in KojiTags |-> [n \in (IF t \in T THEN Elems(SubSeq(names, 1, k)) ELSE {})
                              |-> KojiVersion]] :
        k \in {0, Len(names)}, T \in {KojiTags, {"jp"}}}

\* lines 156-161: the row of a package
VersionRow(n, rel, mbi, up) ==
    [i \in 1..Len(fedora_releases) |-> rel[fedora_releases[i]][n]]
        \o <<mbi[n]>> \o <<up[n]>>

\* get_all_versions, lines 143-163
GetAllVersions ==
    /\ v_pc = "versions"
    /\ \E koji \in KojiWorlds(package_names) :
        LET normalized == [n \in DOMAIN upstream |-> normalize_version(upstream[n])]
            mbi == get_koji_versions(package_names, koji["jp"])
            rel == [r \in Elems(fedora_releases) |->
                        get_koji_versions(package_names, koji[r])]
        IN  IF Raised \in Range(normalized)
            THEN /\ outcome' = "BaseException"
                 /\ UNCHANGED versions_all
            ELSE IF \E n \in Elems(package_names) : n \notin DOMAIN normalized
            THEN /\ outcome' = "KeyError"
                 /\ UNCHANGED versions_all
            ELSE /\ outcome' = "returned"
                 /\ versions_all' = [n \in Elems(package_names) |->
                                        VersionRow(n, rel, mbi, normalized)]
    /\ v_pc' = "table"
    /\ UNCHANGED <<now, runs, cache, package_names, uc_before, uc_checked_at,
                   lookups, fetched, upstream>>
    /\ UNCHANGED <<nv_vars, cfg_vars, mv_vars, w_vars, p_vars>>

\* what is left of a run once the process is gone
ProcessGone ==
    /\ package_names' = <<>> /\ uc_before' = NoFile /\ uc_checked_at' = 0
    /\ lookups' = {} /\ fetched' = EmptyDict /\ upstream' = EmptyDict
    /\ versions_all' = EmptyDict

\* lines 339-346: row_to_str asserts the length of every row
WriteTable ==
    /\ v_pc = "table"
    /\ outcome = "returned"
    /\ outcome' = IF \A n \in DOMAIN versions_all : Len(versions_all[n]) = Len(releases)
                  THEN "written" ELSE "AssertionError"
    /\ v_pc' = "exit"
    /\ ProcessGone
    /\ UNCHANGED <<now, runs, cache>>
    /\ UNCHANGED <<nv_vars, cfg_vars, mv_vars, w_vars, p_vars>>

\* an exception ends the run
Crash ==
    /\ v_pc = "table"
    /\ outcome # "returned"
    /\ v_pc' = "exit"
    /\ ProcessGone
    /\ UNCHANGED <<now, runs, cache, outcome>>
    /\ UNCHANGED <<nv_vars, cfg_vars, mv_vars, w_vars, p_vars>>

\* the script is started: line 140, get_packages
StartRun ==
    /\ v_pc = "exit"
    /\ runs < MaxRuns
    /\ runs' = runs + 1
    /\ \E listed \in SUBSET PackageUniverse : package_names' = get_packages(listed)
    /\ v_pc' = "cached"
    /\ outcome' = "running"
    /\ UNCHANGED <<now, cache, uc_before, uc_checked_at, lookups, fetched,
                   upstream, versions_all>>
    /\ UNCHANGED <<nv_vars, cfg_vars, mv_vars, w_vars, p_vars>>

\* time passes between two runs
Tick ==
    /\ v_pc = "exit"
    /\ \E d \in TickSteps : now + d <= MaxTime /\ now' = now + d
    /\ UNCHANGED <<v_pc, runs, cache, package_names, uc_before, uc_checked_at,
                   lookups, fetched, upstream, versions_all, outcome>>
    /\ UNCHANGED <<nv_vars, cfg_vars, mv_vars, w_vars, p_vars>>

VIdle ==
    /\ v_pc = "idle" /\ now = 0 /\ runs = 0 /\ cache = NoFile
    /\ package_names = <<>> /\ uc_before = NoFile /\ uc_checked_at = 0
    /\ lookups = {} /\ fetched = EmptyDict /\ upstream = EmptyDict
    /\ versions_all = EmptyDict /\ outcome = "idle"

NextVersions ==
    \/ StartRun \/ GetUpstreamVersionsCached \/ GetAllVersions
    \/ WriteTable \/ Crash \/ Tick

-----------------------------------------------------------------------------
(* generate-modulemd.py: the repository, resolve_deps, work(), topo_sort   *)

DictGet(d, k, default) == IF k \in DOMAIN d THEN d[k] ELSE default
\* add (lines 186-189)
add(map, key, val) == DictSet(map, key, DictGet(map, key, {}) \cup {val})
\* {**a, **b}: the entries of b replace those of a with the same key
DictMerge(a, b) == [k \in DOMAIN a \cup DOMAIN b |-> IF k \in DOMAIN b THEN b[k] ELSE a[k]]
\* the dictionary built by add(map, e[1], e[2]) for every pair e
DictOfPairs(pairs) ==
    [k \in {e[1] : e \in pairs} |-> {e[2] : e \in {x \in pairs : x[1] = k}}]

AntSrpm == <<"ant", "1.10.5", "1.fc30.src.rpm">>
XmvnSrpm == <<"xmvn", "3.0.0", "2.fc30.src.rpm">>
MavenSrpm == <<"maven", "3.5.4", "5.fc30.src.rpm">>
GlibcSrpm == <<"glibc", "2.28", "9.fc30.src.rpm">>

\* The sack: the binary packages of the repository, with what hawkey tells
\* about each (name, sourcerpm, files) and the names its requires resolve
\* to.  The first NumPkgs of them are in the repository.
NumPkgs == 4

SackTable ==
    << [name |-> <<"ant">>, sourcerpm |-> AntSrpm,
        files |-> {<<"", "usr", "share", "java", "ant.jar">>},
        requires |-> {<<"glibc">>}],
       [name |-> <<"xmvn">>, sourcerpm |-> XmvnSrpm,
        files |-> {<<"", "usr", "share", "maven-metadata", "xmvn.xml">>,
                   <<"", "usr", "bin", "xmvn">>},
        requires |-> {<<"ant">>, <<"glibc">>}],
       [name |-> <<"maven">>, sourcerpm |-> MavenSrpm,
        files |-> {<<"", "usr", "bin", "mvn">>,
                   <<"", "usr", "lib", "java", "maven-jni.jar">>},
        requires |-> {<<"ant">>}],
       [name |-> <<"glibc">>, sourcerpm |-> GlibcSrpm,
        files |-> {<<"", "usr", "lib64", "libc.so.6">>},
        requires |-> {}],
       [name |-> <<"ant", "junit">>, sourcerpm |-> AntSrpm,
        files |-> {<<"", "usr", "share", "java", "ant", "ant-junit.jar">>},
        requires |-> {<<"ant">>, <<"ant", "junit">>}],
       [name |-> <<"maven", "javadoc">>, sourcerpm |-> MavenSrpm,
        files |-> {<<"", "usr", "share", "javadoc", "maven", "index.html">>},
        requires |-> {}] >>

\* hawkey package objects are the indices of the table
Pkgs == 1..NumPkgs
sourcerpm(p) == SackTable[p].sourcerpm
Srpms == {sourcerpm(p) : p \in Pkgs}

\* the BuildRequires Koji may record for the source RPMs: one table without
\* cycles, one in which ant and maven need each other, one with none
BuildRequiresChoices ==
    { [ant |-> {<<"glibc">>}, xmvn |-> {<<"glibc">>}, maven |-> {<<"ant">>}],
      [ant |-> {<<"maven">>}, xmvn |-> {<<"ant">>, <<"nosuch">>}, maven |-> {<<"ant">>}],
      [ant |-> {}, xmvn |-> {}, maven |-> {}] }

\* get_build_requires (lines 132-134) for one source RPM
BuildRequires(srpm) ==
    IF srpm = AntSrpm THEN koji_brs.ant
    ELSE IF srpm = XmvnSrpm THEN koji_brs.xmvn
    ELSE IF srpm = MavenSrpm THEN koji_brs.maven
    ELSE {}

\* resolve_builddep (lines 121-122) and resolve_reldep (lines 127-128): the
\* packages of the sack a dependency string matches
resolve_builddep(br) == {p \in Pkgs : SackTable[p].name = br}
resolve_reldep(reldep) == {p \in Pkgs : SackTable[p].name = reldep}

\* str.endswith("-" + word) on a name given by its "-"-separated fields
endswith(n, word) == Len(n) >= 2 /\ n[Len(n)] = word

\* the RPMs Koji lists for the build of a source RPM
KojiRpmNames(srpm) ==
    {SackTable[p].name : p \in {q \in Pkgs : sourcerpm(q) = srpm}}
        \cup {name(srpm) \o <<"debuginfo">>, name(srpm) \o <<"debugsource">>}

\* get_binary_rpms (lines 138-144)
get_binary_rpms(srpms) ==
    {n \in UNION {KojiRpmNames(srpm) : srpm \in srpms} :
        ~endswith(n, "debuginfo") /\ ~endswith(n, "debugsource")}

\* depsolve.run_goal(sack, deps, []): the solver either fails, or installs
\* a package for every dependency together with whatever else it chooses;
\* with nothing to install it installs nothing
RunGoalOutcomes(ds) ==
    IF ds = {} THEN {[resolved |-> TRUE, installs |-> {}]}
    ELSE {[resolved |-> FALSE, installs |-> {}]}
           \cup {[resolved |-> TRUE, installs |-> I] :
                    I \in {J \in SUBSET Pkgs :
                             \A d \in ds : resolve_builddep(d) \cap J # {}}}

\* line 115
JavaOf(inst) == {sourcerpm(p) : p \in {q \in inst : is_maven_pkg(SackTable[q])}}

\* variants of lines 205-206
NextTodoWithoutJava(todo, java, done) == todo \ done
NextTodoKeepDone(todo, java, done) == todo \cup java

\* lines 205-206: srpms_todo |= java; srpms_todo -= srpms_done
NextTodo(todo, java, done) == (todo \cup java) \ done

\* resolve_deps returns (lines 115-116) to line 184 or to lines 204-207
ResolveReturns(inst) ==
    /\ IF caller = "seed"
       THEN /\ srpms_todo' = JavaOf(inst)
            /\ pkgs' = inst
       ELSE /\ srpms_todo' = NextTodo(srpms_todo, JavaOf(inst), srpms_done)
            /\ pkgs' = pkgs \cup inst
    /\ w_pc' = "loop"
    /\ installs' = {}
    /\ deps_left' = {}

\* lines 181-184: work() starts and calls resolve_deps(sack, api)
Seed ==
    /\ w_pc = "seed"
    /\ deps' = api
    /\ caller' = "seed"
    /\ w_pc' = "goal"
    /\ UNCHANGED <<deps_left, installs, srpms_todo, srpms_done, pkgs, br_map,
                   build_deps, runtime_deps, buildorder, rounds, barren, br_fetches>>
    /\ UNCHANGED <<nv_vars, cfg_vars, mv_vars, p_vars, v_vars>>

\* lines 104-106: all dependencies in one goal
RunGoal ==
    /\ w_pc = "goal"
    /\ \E out \in RunGoalOutcomes(deps) :
          IF out.resolved
          THEN ResolveReturns(out.installs)
          ELSE /\ installs' = {}
               /\ deps_left' = deps
               /\ w_pc' = "each"
               /\ UNCHANGED <<srpms_todo, pkgs>>
    /\ UNCHANGED <<caller, deps, srpms_done, br_map, build_deps, runtime_deps,
                   buildorder, rounds, barren, br_fetches>>
    /\ UNCHANGED <<nv_vars, cfg_vars, mv_vars, p_vars, v_vars>>

First(S) == CHOOSE x \in S : TRUE

\* lines 107-114: one dependency per goal
ResolveEach ==
    /\ w_pc = "each"
    /\ deps_left # {}
    /\ LET pkg == First(deps_left) IN
       \E out \in RunGoalOutcomes({pkg}) :
          LET inst == IF out.resolved THEN installs \cup out.installs ELSE installs
          IN  IF deps_left = {pkg}
              THEN ResolveReturns(inst)
              ELSE /\ installs' = inst
                   /\ deps_left' = deps_left \ {pkg}
                   /\ UNCHANGED <<w_pc, srpms_todo, pkgs>>
    /\ UNCHANGED <<caller, deps, srpms_done, br_map, build_deps, runtime_deps,
                   buildorder, rounds, barren, br_fetches>>
    /\ UNCHANGED <<nv_vars, cfg_vars, mv_vars, p_vars, v_vars>>

MaxRounds == Cardinality(Srpms) + 3

\* lines 191-204: one round, up to the call of resolve_deps
Round ==
    /\ w_pc = "loop"
    /\ srpms_todo # {}
    /\ rounds < MaxRounds
    /\ LET todo == {srpm \in srpms_todo : name(srpm) \notin excludes}
           brs == IF include_build_deps
                  THEN UNION {BuildRequires(srpm) : srpm \in todo}
                  ELSE {}
           bin == IF closure THEN get_binary_rpms(todo) \ filtered ELSE {}
       IN  /\ srpms_todo' = todo
           /\ srpms_done' = srpms_done \cup todo
           /\ barren' = IF todo \subseteq srpms_done THEN barren + 1 ELSE barren
           /\ br_map' = IF include_build_deps
                        THEN DictMerge(br_map,
                               [br \in brs |-> DictGet(br_map, br, {}) \cup
                                   {srpm \in todo : br \in BuildRequires(srpm)}])
                        ELSE br_map
           /\ br_fetches' = IF include_build_deps
                            THEN [srpm \in Srpms |->
                                    br_fetches[srpm] + (IF srpm \in todo THEN 1 ELSE 0)]
                            ELSE br_fetches
           /\ deps' = brs \cup bin
    /\ rounds' = rounds + 1
    /\ caller' = "round"
    /\ w_pc' = "goal"
    /\ UNCHANGED <<deps_left, installs, pkgs, build_deps, runtime_deps, buildorder>>
    /\ UNCHANGED <<nv_vars, cfg_vars, mv_vars, p_vars, v_vars>>

\* our (lines 209-210)
our(ps) == {p \in ps : sourcerpm(p) \in srpms_done}

\* lines 227-244, once the loop is over
ComputeDeps ==
    /\ w_pc = "loop"
    /\ srpms_todo = {}
    /\ build_deps' = DictOfPairs(
            UNION {{<<sourcerpm(dep), srpm>> :
                        dep \in our(resolve_builddep(br)), srpm \in br_map[br]} :
                   br \in DOMAIN br_map})
    /\ runtime_deps' = DictOfPairs(
            UNION {{<<sourcerpm(dep), sourcerpm(pkg)>> :
                        dep \in {d \in UNION {resolve_reldep(r) : r \in SackTable[pkg].requires} :
                                    sourcerpm(d) # sourcerpm(pkg)}} :
                   pkg \in our(pkgs)})
    /\ w_pc' = "sort"
    /\ UNCHANGED <<caller, deps, deps_left, installs, srpms_todo, srpms_done, pkgs,
                   br_map, buildorder, rounds, barren, br_fetches>>
    /\ UNCHANGED <<nv_vars, cfg_vars, mv_vars, p_vars, v_vars>>

Undefined == [kind |-> "undefined", W |-> <<>>]
None == [kind |-> "None", W |-> <<>>]

\* topo_sort (lines 147-164), from the state of its while loop
RECURSIVE topo_sort_loop(_, _, _, _)
topo_sort_loop(V, E, W, i) ==
    IF V = {} THEN [kind |-> "dict", W |-> W]
    ELSE LET U == {v \in V : ~\E u \in V : v \in DictGet(E, u, {})}
         IN  IF U = {} THEN None
             ELSE topo_sort_loop(V \ U, E,
                                 [x \in DOMAIN W \cup U |-> IF x \in U THEN i ELSE W[x]],
                                 i + 1)

topo_sort(V, E) == topo_sort_loop(V, E, EmptyDict, 1)

\* lines 246-247 with topo_sort set in the configuration
TopoSort ==
    /\ w_pc = "sort"
    /\ buildorder' = topo_sort(srpms_done, DictMerge(runtime_deps, build_deps))
    /\ w_pc' = "done"
    /\ UNCHANGED <<caller, deps, deps_left, installs, srpms_todo, srpms_done, pkgs,
                   br_map, build_deps, runtime_deps, rounds, barren, br_fetches>>
    /\ UNCHANGED <<nv_vars, cfg_vars, mv_vars, p_vars, v_vars>>

\* line 246 with topo_sort not set: buildorder stays undefined
NoTopoSort ==
    /\ w_pc = "sort"
    /\ w_pc' = "done"
    /\ UNCHANGED <<caller, deps, deps_left, installs, srpms_todo, srpms_done, pkgs,
                   br_map, build_deps, runtime_deps, buildorder, rounds, barren,
                   br_fetches>>
    /\ UNCHANGED <<nv_vars, cfg_vars, mv_vars, p_vars, v_vars>>

NextWork ==
    \/ Seed \/ RunGoal \/ ResolveEach \/ Round \/ ComputeDeps
    \/ TopoSort \/ NoTopoSort

\* the configurations tried
ApiChoices ==
    { {<<"xmvn">>}, {<<"xmvn">>, <<"maven">>}, {<<"ant">>, <<"nosuch">>} }
IncludeExcludeChoices ==
    { <<{}, {}>>, <<{<<"glibc">>}, {}>>, <<{}, {<<"ant">>}>>,
      <<{<<"glibc">>}, {<<"glibc">>}>> }
\* include_build_deps, closure, filter
FlagChoices ==
    { <<TRUE, FALSE, {}>>, <<FALSE, FALSE, {}>>,
      <<TRUE, TRUE, {<<"xmvn">>}>>, <<FALSE, TRUE, {<<"maven">>}>> }

CfgIdle ==
    /\ api = {} /\ includes = {} /\ excludes = {}
    /\ include_build_deps = FALSE /\ closure = FALSE /\ filtered = {}
    /\ koji_brs = [ant |-> {}, xmvn |-> {}, maven |-> {}]

WIdle ==
    /\ w_pc = "idle" /\ caller = "seed" /\ deps = {} /\ deps_left = {}
    /\ installs = {} /\ srpms_todo = {} /\ srpms_done = {} /\ pkgs = {}
    /\ br_map = EmptyDict /\ build_deps = EmptyDict /\ runtime_deps = EmptyDict
    /\ buildorder = Undefined /\ rounds = 0 /\ barren = 0
    /\ br_fetches = [srpm \in Srpms |-> 0]

InitWork ==
    /\ api \in ApiChoices
    /\ \E ie \in IncludeExcludeChoices : includes = ie[1] /\ excludes = ie[2]
    /\ \E fl \in FlagChoices :
          include_build_deps = fl[1] /\ closure = fl[2] /\ filtered = fl[3]
    /\ koji_brs \in BuildRequiresChoices
    /\ w_pc = "seed" /\ caller = "seed" /\ deps = {} /\ deps_left = {}
    /\ installs = {} /\ srpms_todo = {} /\ srpms_done = {} /\ pkgs = {}
    /\ br_map = EmptyDict /\ build_deps = EmptyDict /\ runtime_deps = EmptyDict
    /\ buildorder = Undefined /\ rounds = 0 /\ barren = 0
    /\ br_fetches = [srpm \in Srpms |-> 0]
    /\ NvIdle /\ MvIdle /\ PIdle /\ VIdle

-----------------------------------------------------------------------------
vars == <<nv_vars, cfg_vars, mv_vars, w_vars, p_vars, v_vars>>

InitNormalize ==
    /\ nv_pc = "call"
    /\ version \in VersionInputs
    /\ nv_result = <<>>
    /\ CfgIdle /\ WIdle
    /\ MvIdle /\ PIdle /\ VIdle

SpecNormalize == InitNormalize /\ [][NormalizeVersion]_vars

InitMaven ==
    /\ mv_pc = "call"
    /\ mv_pkg \in [sourcerpm : MvSourceRpms, files : SetsUpTo(FilePaths, MaxFiles)]
    /\ mv_result = FALSE
    /\ api = {} /\ include_build_deps = FALSE /\ closure = FALSE /\ filtered = {}
    /\ koji_brs = [ant |-> {}, xmvn |-> {}, maven |-> {}]
    /\ includes \in SUBSET MvNames
    /\ excludes \in SUBSET MvNames
    /\ WIdle
    /\ NvIdle /\ PIdle /\ VIdle

SpecMaven == InitMaven /\ [][IsMavenPkg]_vars

SpecWork == InitWork /\ [][NextWork]_vars

InitPool ==
    /\ p_pc = "submit"
    /\ \/ /\ p_kind = "upstream"
          /\ \E listed \in SUBSET PackageUniverse : p_items = get_packages(listed)
       \/ /\ p_kind = "fedora"
          /\ p_items = fedora_releases
    /\ futures = <<>> /\ p_collected = 0 /\ p_result = EmptyDict
    /\ CfgIdle /\ WIdle
    /\ NvIdle /\ MvIdle /\ VIdle

SpecPool == InitPool /\ [][NextPool]_vars

InitVersions ==
    /\ v_pc = "exit" /\ now = 0 /\ runs = 0 /\ cache = NoFile
    /\ package_names = <<>> /\ uc_before = NoFile /\ uc_checked_at = 0
    /\ lookups = {} /\ fetched = EmptyDict /\ upstream = EmptyDict
    /\ versions_all = EmptyDict /\ outcome = "idle"
    /\ CfgIdle /\ WIdle
    /\ NvIdle /\ MvIdle /\ PIdle

SpecVersions == InitVersions /\ [][NextVersions]_vars

-----------------------------------------------------------------------------
(* C6 *)

IsVersionChar(c) == c \in Digits \/ c = "."

\* the lengths k such that the first k characters are digits and dots and
\* the k-th is a digit
NumericPrefixes(s) ==
    {k \in 1..Len(s) : s[k] \in Digits /\ \A i \in 1..k : IsVersionChar(s[i])}

Max(S) == CHOOSE x \in S : \A y \in S : y <= x

\* the RPM form, as the claim words it
RpmForm(v) ==
    LET w == [i \in 1..Len(v) |-> IF v[i] \in {"_", "-"} THEN "." ELSE v[i]]
        k == Max(NumericPrefixes(w))
        lead == SubSeq(w, 1, k)
        rem == SubSeq(w, k + 1, Len(w))
        cut == IF rem # <<>> /\ rem[1] \in {".", "~"} THEN Tail1(rem) ELSE rem
    IN  IF rem = DotFinal THEN lead
        ELSE IF rem = <<>> \/ (Len(rem) = 1 /\ rem[1] \in Letters) THEN lead \o rem
        ELSE IF Len(cut) >= 2 /\ cut[1] = "S" /\ cut[2] = "P" THEN lead \o <<".">> \o cut
        ELSE lead \o <<"~">> \o cut

HasNumericPrefix(v) ==
    NumericPrefixes([i \in 1..Len(v) |-> IF v[i] \in {"_", "-"} THEN "." ELSE v[i]]) # {}

HasLineBreak(v) == \E i \in 1..Len(v) : v[i] = "\n"

\* C6 as claimed: normalize_version returns '' for '', and for every version
\* whose form with '_' and '-' turned into '.' starts with a run of digits
\* and dots ending in a digit it returns the RPM form the claim describes.
C6_AsClaimed ==
    nv_pc = "done" =>
        /\ version = <<>> => nv_result = <<>>
        /\ (version # <<>> /\ HasNumericPrefix(version)) => nv_result = RpmForm(version)

\* C6 amended: the same for every version that holds no line break (the
\* remainder the code works on ends at the first line break); every
\* self-test input gets its asserted value.
C6_NormalizeVersion ==
    nv_pc = "done" =>
        /\ version = <<>> => nv_result = <<>>
        /\ (version # <<>> /\ HasNumericPrefix(version) /\ ~HasLineBreak(version))
              => nv_result = RpmForm(version)
        /\ \A t \in SelfTests : version = t[1] => nv_result = t[2]

\* a remainder that loses its leading "." and starts with SP
C6_Witness ==
    /\ nv_pc = "done"
    /\ version = <<"1", "_", "S", "P">>
    /\ nv_result = <<"1", ".", "S", "P">>

-----------------------------------------------------------------------------
(* C5 *)

JavaPrefixes == {MavenMetadataDir, JavaDir, LibJavaDir}

ShipsJavaFile(p) ==
    \E f \in p.files : \E d \in JavaPrefixes :
        /\ Len(f) > Len(d)
        /\ \A i \in 1..Len(d) : f[i] = d[i]

\* C5: includes win over excludes, excludes win over the file heuristic, and
\* the heuristic decides only for names in neither list.
C5_ExplicitPreference ==
    mv_pc = "done" =>
        LET n == name(mv_pkg.sourcerpm) IN
        /\ n \in includes => mv_result = TRUE
        /\ (n \in excludes /\ n \notin includes) => mv_result = FALSE
        /\ (n \notin includes /\ n \notin excludes) => mv_result = ShipsJavaFile(mv_pkg)

C5_Witness ==
    /\ mv_pc = "done"
    /\ name(mv_pkg.sourcerpm) \in excludes
    /\ name(mv_pkg.sourcerpm) \notin includes
    /\ ShipsJavaFile(mv_pkg)
    /\ mv_result = FALSE

-----------------------------------------------------------------------------
(* C7 *)

\* C7: the fan-out returns only when every submitted call is over, and then
\* every item is mapped to the result of the call made for that item.
C7_OwnResult ==
    p_pc = "returned" =>
        /\ Len(futures) = Len(p_items)
        /\ \A i \in 1..Len(futures) : futures[i].state = "finished"
        /\ DOMAIN p_result = Elems(p_items)
        /\ \A i \in 1..Len(p_items) :
              /\ futures[i].arg = p_items[i]
              /\ p_result[p_items[i]] = futures[i].value
              /\ p_result[p_items[i]][1] = p_items[i]

\* three calls that returned different things, gathered
C7_Witness ==
    /\ p_pc = "returned"
    /\ p_kind = "upstream"
    /\ Len(p_items) >= 2
    /\ p_result[p_items[1]][2] # p_result[p_items[2]][2]

-----------------------------------------------------------------------------
(* C8 *)

CacheWasStale ==
    \/ ~uc_before.exists
    \/ uc_checked_at - uc_before.time_retrieved > 3600

\* C8: the cache is regenerated exactly when it is missing or older than
\* 3600 s; then every listed package is looked up and the file is rewritten
\* with the current time and the fetched map; otherwise nothing is looked
\* up, the file stays as it was and its 'packages' map is returned.
C8_CacheRegeneration ==
    v_pc = "versions" =>
        IF CacheWasStale
        THEN /\ lookups = Elems(package_names)
             /\ upstream = fetched
             /\ cache = [exists |-> TRUE, time_retrieved |-> now, packages |-> fetched]
        ELSE /\ lookups = {}
             /\ cache = uc_before
             /\ upstream = uc_before.packages

\* a cache exactly upstream_cache_interval old is still used
C8_Witness ==
    /\ v_pc = "versions"
    /\ uc_before.exists
    /\ uc_checked_at - uc_before.time_retrieved = 3600
    /\ lookups = {}
    /\ upstream = uc_before.packages

-----------------------------------------------------------------------------
(* C9 *)

\* C9 as claimed: in every run get_all_versions returns, for every package
\* get_packages listed, a row of len(releases) = 6 versions, so the
\* assertion of row_to_str holds.
C9_AsClaimed ==
    v_pc = "table" =>
        /\ outcome = "returned"
        /\ DOMAIN versions_all = Elems(package_names)
        /\ \A n \in Elems(package_names) : Len(versions_all[n]) = 6

-----------------------------------------------------------------------------
(* C1 *)

LoopOver == (w_pc = "loop" /\ srpms_todo = {}) \/ w_pc \in {"sort", "done"}

\* C1: when the loop is over, the source RPM of every package installed by
\* the seed resolution or by a round's resolution that is_maven_pkg accepts
\* and whose name is not excluded is in srpms_done.
C1_FixedPoint ==
    LoopOver =>
        \A p \in pkgs :
            (is_maven_pkg(SackTable[p]) /\ name(sourcerpm(p)) \notin excludes)
                => sourcerpm(p) \in srpms_done

\* two rounds or more, and an accepted package that stays out by its name
C1_Witness ==
    /\ w_pc = "done"
    /\ rounds >= 2
    /\ Cardinality(srpms_done) >= 2
    /\ \E p \in pkgs : is_maven_pkg(SackTable[p]) /\ name(sourcerpm(p)) \in excludes

-----------------------------------------------------------------------------
(* C2 *)

\* C2: a round that adds nothing to srpms_done is the last one (the loop
\* condition fails after it), so there are at most as many rounds as source
\* RPMs, plus one.
C2_RoundsBounded ==
    /\ rounds <= Cardinality(Srpms) + 1
    /\ barren <= 1
    /\ (barren = 1 /\ w_pc = "loop") => srpms_todo = {}

\* a run of three rounds, the last of which added nothing
C2_Witness ==
    /\ w_pc = "done"
    /\ rounds >= 3
    /\ barren = 1

-----------------------------------------------------------------------------
(* C3 *)

\* C3: srpms_done and pkgs only grow, srpms_todo is disjoint from srpms_done
\* whenever a round starts, and the build-requires of a source RPM are
\* fetched in at most one round.
C3_Monotone ==
    /\ [](w_pc = "loop" => srpms_todo \cap srpms_done = {})
    /\ [](\A srpm \in Srpms : br_fetches[srpm] <= 1)
    /\ [][srpms_done \subseteq srpms_done' /\ pkgs \subseteq pkgs']_vars

C3_Witness ==
    /\ w_pc = "done"
    /\ rounds >= 2
    /\ Cardinality({srpm \in Srpms : br_fetches[srpm] = 1}) >= 3

-----------------------------------------------------------------------------
(* C4 *)

DependsOn(v, u) ==
    \/ v \in DictGet(build_deps, u, {})
    \/ v \in DictGet(runtime_deps, u, {})

\* C4 as claimed: when topo_sort produced an order, every component comes
\* strictly after every other component of srpms_done it depends on, by
\* build_deps or by runtime_deps.
C4_AsClaimed ==
    (w_pc = "done" /\ buildorder.kind = "dict") =>
        \A u \in srpms_done, v \in srpms_done :
            (u # v /\ DependsOn(v, u)) => buildorder.W[v] > buildorder.W[u]

====
